---- MODULE Spec2Model ----
(***************************************************************************)
(* AirWatch: the model loader, the prediction path and the index          *)
(* functions of ml_handler.py, the /predict_aqi and favorites handlers of  *)
(* routes/api.py and the start of app.py, as a state machine.              *)
(*                                                                         *)
(* Worker threads call load_model, ensure_model_file and the predict       *)
(* handler.  The module-level globals AQI_PREDICTOR_MODEL, AQI_IMPUTER and *)
(* AQI_MODEL_FEATURES are shared without any lock, and so are the artifact *)
(* path and the one temporary path next to it.  Every access to a global   *)
(* or to the file system is a step of its own; reading the artifact file   *)
(* is one step, and so is each block of predict_current_aqi that reads one *)
(* global.                                                                 *)
(*                                                                         *)
(* Spec has the calls of the threads overlap and SpecSeq has them one at a *)
(* time (SpecSeqFair: with threads that keep running); SpecServe is the    *)
(* import followed by prediction calls with every reading; SpecFn calls    *)
(* the pure functions; SpecFav has favorites requests overlap and          *)
(* SpecFavSeq has them one at a time; SpecApp is the start of the          *)
(* application and its /health.                                            *)
(***************************************************************************)
EXTENDS Integers, Sequences, FiniteSets, TLC

(***************************************************************************)
(* Bounds of the model.                                                    *)
(***************************************************************************)
NThreads == 2
MaxCalls == 2
NChunks == 1

Threads == 1..NThreads

(***************************************************************************)
(* Values.                                                                 *)
(***************************************************************************)
None == "None"
NoFile == <<-1>>

MODEL_FEATURES ==
  <<"PM2.5", "PM10", "NO", "NO2", "NOx", "NH3", "CO", "SO2", "O3",
    "Benzene", "Toluene", "Xylene">>

\* A feature order is held by name; FeatureList gives the list it names.
FeatureList(f) ==
  CASE f = "MODEL_FEATURES" -> MODEL_FEATURES
    [] f = "EMPTY" -> << >>
    [] OTHER -> << >>

(***************************************************************************)
(* What pickle.load can return for a complete artifact: a dict with some   *)
(* of the keys model, imputer, features; a plain model object; or nothing, *)
(* because the bytes are no pickle at all.                                 *)
(***************************************************************************)
PkgTrained ==
  [kind |-> "dict",
   d |-> [k \in {"model", "imputer", "features"} |->
            CASE k = "model" -> "M" [] k = "imputer" -> "I"
              [] OTHER -> "MODEL_FEATURES"],
   obj |-> None]
PkgModelOnly ==
  [kind |-> "dict", d |-> [k \in {"model"} |-> "M"], obj |-> None]
PkgFeaturesNull ==
  [kind |-> "dict",
   d |-> [k \in {"model", "features"} |-> IF k = "model" THEN "M" ELSE None],
   obj |-> None]
PkgNoModel ==
  [kind |-> "dict",
   d |-> [k \in {"imputer", "features"} |->
            IF k = "imputer" THEN "I" ELSE "MODEL_FEATURES"],
   obj |-> None]
PkgEmptyFeatures ==
  [kind |-> "dict",
   d |-> [k \in {"model", "features"} |-> IF k = "model" THEN "M" ELSE "EMPTY"],
   obj |-> None]
PkgPlain == [kind |-> "plain", d |-> [k \in {} |-> None], obj |-> "M"]
PkgGarbage == [kind |-> "garbage", d |-> [k \in {} |-> None], obj |-> None]
NoPkg == [kind |-> "none", d |-> [k \in {} |-> None], obj |-> None]

Artifacts ==
  {PkgTrained, PkgModelOnly, PkgFeaturesNull, PkgNoModel, PkgEmptyFeatures,
   PkgPlain, PkgGarbage}

\* dict.get(key, default)
DictGet(d, k, default) == IF k \in DOMAIN d THEN d[k] ELSE default

(***************************************************************************)
(* Files.  A file is the sequence of the chunks written to it; chunk i of  *)
(* the remote body is the number i and 0 is a hole.                        *)
(***************************************************************************)
CompleteFile == [i \in 1..NChunks |-> i]
IsFile_Never(f) == FALSE
IsFile(f) == f # NoFile
Complete(f) == f = CompleteFile

\* f.write(chunk) through a handle whose position is `off` chunks.
WriteChunk(f, off) ==
  [i \in 1..(IF Len(f) > off + 1 THEN Len(f) ELSE off + 1) |->
     IF i = off + 1 THEN off + 1
     ELSE IF i <= Len(f) THEN f[i] ELSE 0]


(***************************************************************************)
(* Readings: what the request gives for each pollutant name.  A value is a *)
(* number ("num"), a NaN ("nan"), a JSON null ("null"), a text that is no  *)
(* number ("text"), or the key is absent ("absent").                       *)
(***************************************************************************)
Range(s) == {s[i] : i \in DOMAIN s}
Names == Range(MODEL_FEATURES)

ReadingComplete == [n \in Names |-> "num"]
ReadingNoSO2 == [n \in Names |-> IF n = "SO2" THEN "absent" ELSE "num"]
\* SO2 is absent, NO2 is null and CO is a text that is no number.
ReadingMixed ==
  [n \in Names |->
     CASE n = "SO2" -> "absent" [] n = "NO2" -> "null" [] n = "CO" -> "text"
       [] OTHER -> "num"]
\* CO is a NaN, which float() accepts.
ReadingNanCO == [n \in Names |-> IF n = "CO" THEN "nan" ELSE "num"]

\* Readings are held by name.  "hazy", "smog" and "storm" are complete
\* readings like "complete", with other numbers: the predictor answers them
\* differently (see PredictorOutput).
ReadingOf(r) ==
  CASE r \in {"complete", "hazy", "smog", "storm"} -> ReadingComplete
    [] r = "noSO2" -> ReadingNoSO2
    [] r = "mixed" -> ReadingMixed
    [] r = "nanCO" -> ReadingNanCO
    [] OTHER -> [n \in Names |-> "absent"]

Readings == {"complete", "hazy", "smog", "storm", "noSO2", "mixed", "nanCO"}
BasicReadings == {"complete", "noSO2"}

\* `key in data`, and whether float(data[key]) returns.
Has(data, n) == n \in DOMAIN data /\ data[n] # "absent"
Floatable(v) == v \in {"num", "nan"}

VARIABLES
  AQI_PREDICTOR_MODEL, AQI_IMPUTER, AQI_MODEL_FEATURES,
  artifact,      \* what the bytes of the complete artifact unpickle to
  destFile,      \* the file at MODEL_PATH
  tmpFile,       \* the file at MODEL_PATH.with_suffix(".tmp")
  dirExists,     \* MODEL_DIR exists
  everPresent,   \* history: a file has been at MODEL_PATH at some time
  imported,      \* the import of ml_handler, and its load_model(), is over
  calls,         \* calls started since the import
  pc, op,        \* per thread: position, and the operation it is in
  h, off,        \* per thread: where its open file now lives; chunks written
  ok,            \* per thread: what ensure_model_file returned
  attempted,     \* per thread: this call started a download
  pkg,           \* per thread: what pickle.load returned
  used,          \* per thread: the globals predict_current_aqi read
  reading,       \* per thread: the request's reading
  resp,          \* per thread: the response of the handler
  fnIn, fnOut,   \* the last call of get_aqi_category: argument and result
  call,          \* the last call of another pure function, with its result
  favorites,     \* the rows of the table `favorite`
  req,           \* per thread: the add_favorite or remove_favorite it serves
  last,          \* history: the request that returned last
  app            \* app.py: how far the start is, and what /health answered

globals == <<AQI_PREDICTOR_MODEL, AQI_IMPUTER, AQI_MODEL_FEATURES>>
files == <<destFile, tmpFile, dirExists, everPresent, h, off>>
locals == <<ok, attempted, pkg, used, reading, resp>>
fn == <<fnIn, fnOut, call>>
web == <<favorites, req, last, app>>
vars == <<globals, artifact, files, imported, calls, pc, op, locals, fn, web>>

(***************************************************************************)
(* The initial state is the start of the import of ml_handler: the globals *)
(* are None (lines 18-20) and thread 1 is about to run the load_model() of *)
(* line 168.  The artifact path may hold nothing, a complete artifact, or  *)
(* a zero-byte file.                                                       *)
(***************************************************************************)
NoUse == [model |-> None, imputer |-> None, features |-> None, out |-> None]
NoArg == [kind |-> "none", v |-> 0]
NoCall == [fn |-> "none"]

\* A string of a request is the tuple of its characters.
NoCity == [has |-> FALSE, s |-> << >>]
NoRow == [id |-> 0, user_id |-> 0, city |-> << >>]
NoResponse == [status |-> 0, success |-> FALSE]
IdleRequest ==
  [pc |-> "idle", op |-> "none", user_id |-> 0, city |-> NoCity,
   fav |-> NoRow]
NoRequest ==
  [op |-> "none", user_id |-> 0, city |-> NoCity, before |-> {},
   resp |-> NoResponse]
NoHealth == [status |-> "none", ml_model_loaded |-> FALSE]

Init ==
  /\ AQI_PREDICTOR_MODEL = None
  /\ AQI_IMPUTER = None
  /\ AQI_MODEL_FEATURES = None
  /\ artifact \in Artifacts
  /\ destFile \in {NoFile, << >>, CompleteFile}
  /\ tmpFile = NoFile
  /\ dirExists \in {d \in BOOLEAN : IsFile(destFile) => d}
  /\ everPresent = IsFile(destFile)
  /\ imported = FALSE
  /\ calls = 0
  /\ pc = [t \in Threads |-> IF t = 1 THEN "L_exists" ELSE "idle"]
  /\ op = [t \in Threads |-> IF t = 1 THEN "load" ELSE "none"]
  /\ h = [t \in Threads |-> "none"]
  /\ off = [t \in Threads |-> 0]
  /\ ok = [t \in Threads |-> FALSE]
  /\ attempted = [t \in Threads |-> FALSE]
  /\ pkg = [t \in Threads |-> NoPkg]
  /\ used = [t \in Threads |-> NoUse]
  /\ reading = [t \in Threads |-> "none"]
  /\ resp = [t \in Threads |-> "none"]
  /\ fnIn = NoArg
  /\ fnOut = "none"
  /\ call = NoCall
  /\ favorites = {}
  /\ req = [t \in Threads |-> IdleRequest]
  /\ last = NoRequest
  /\ app = [phase |-> "import", background_model_loader |-> None,
            scheduled |-> FALSE, health |-> NoHealth]

(***************************************************************************)
(* Calls.  After the import any idle thread may call load_model() or       *)
(* ensure_model_file(), both with the default path.                        *)
(***************************************************************************)
StartCall(t, o, at) ==
  /\ imported
  /\ pc[t] = "idle"
  /\ calls < MaxCalls
  /\ calls' = calls + 1
  /\ op' = [op EXCEPT ![t] = o]
  /\ pc' = [pc EXCEPT ![t] = at]
  /\ ok' = [ok EXCEPT ![t] = FALSE]
  /\ attempted' = [attempted EXCEPT ![t] = FALSE]
  /\ pkg' = [pkg EXCEPT ![t] = NoPkg]
  /\ used' = [used EXCEPT ![t] = NoUse]

CallLoad(t) ==
  /\ StartCall(t, "load", "L_exists")
  /\ reading' = [reading EXCEPT ![t] = "none"]
  /\ resp' = [resp EXCEPT ![t] = "none"]
  /\ UNCHANGED <<globals, artifact, files, imported>>

CallEnsure(t) ==
  /\ StartCall(t, "ensure", "E_exists")
  /\ reading' = [reading EXCEPT ![t] = "none"]
  /\ resp' = [resp EXCEPT ![t] = "none"]
  /\ UNCHANGED <<globals, artifact, files, imported>>

\* The return of the operation a thread is in.
Return(t) ==
  /\ pc' = [pc EXCEPT ![t] = "idle"]
  /\ imported' = TRUE

(***************************************************************************)
(* load_model, line 124: path_obj.exists().                                *)
(***************************************************************************)
LoadExists(t) ==
  /\ pc[t] = "L_exists"
  /\ pc' = [pc EXCEPT ![t] = IF IsFile(destFile) THEN "L_open" ELSE "E_exists"]
  /\ UNCHANGED <<globals, artifact, files, imported, calls, op, locals>>

(***************************************************************************)
(* ensure_model_file.  Its return goes back to load_model (lines 126-127)  *)
(* or to the caller.                                                       *)
(***************************************************************************)
EnsureReturn(t, result) ==
  /\ ok' = [ok EXCEPT ![t] = result]
  /\ IF op[t] = "ensure"
     THEN Return(t)
     ELSE /\ pc' = [pc EXCEPT ![t] = IF result THEN "L_open" ELSE "F_model"]
          /\ UNCHANGED imported

\* Lines 88-93: the file is there, or the directory is made and the
\* download starts.
EnsureExists(t) ==
  /\ pc[t] = "E_exists"
  /\ IF IsFile(destFile)
     THEN /\ EnsureReturn(t, TRUE)
          /\ UNCHANGED <<dirExists, attempted>>
     ELSE /\ dirExists' = TRUE
          /\ attempted' = [attempted EXCEPT ![t] = TRUE]
          /\ pc' = [pc EXCEPT ![t] = "R_open"]
          /\ UNCHANGED <<ok, imported>>
  /\ UNCHANGED <<globals, artifact, destFile, tmpFile, everPresent, h, off,
                 calls, op, pkg, used, reading, resp>>

(***************************************************************************)
(* The two transports.  Both write to the same temporary path,             *)
(* dest.with_suffix(".tmp"), and rename it over the destination.           *)
(***************************************************************************)
\* open(tmp_path, "wb"): creates the file, or truncates the one there.
OpenTmp(t, next) ==
  /\ dirExists
  /\ tmpFile' = << >>
  /\ h' = [h EXCEPT ![t] = "tmp"]
  /\ off' = [off EXCEPT ![t] = 0]
  /\ pc' = [pc EXCEPT ![t] = next]

\* One chunk through the open handle, wherever the file now lives.
WriteThrough_Direct(t) ==
  /\ destFile' = WriteChunk(IF IsFile(destFile) THEN destFile ELSE << >>, off[t])
  /\ tmpFile' = tmpFile
  /\ off' = [off EXCEPT ![t] = off[t] + 1]
WriteThrough(t) ==
  /\ destFile' = IF h[t] = "dest" THEN WriteChunk(destFile, off[t]) ELSE destFile
  /\ tmpFile' = IF h[t] = "tmp" THEN WriteChunk(tmpFile, off[t]) ELSE tmpFile
  /\ off' = [off EXCEPT ![t] = off[t] + 1]

\* The with block is left, or urlretrieve returns: the file is closed.
Close(t) ==
  /\ h' = [h EXCEPT ![t] = "none"]
  /\ off' = [off EXCEPT ![t] = 0]

\* tmp_path.replace(dest): the temporary file becomes the destination; the
\* handles other threads hold follow their files.
ReplaceDest(t) ==
  /\ destFile' = tmpFile
  /\ tmpFile' = NoFile
  /\ everPresent' = TRUE
  /\ off' = [off EXCEPT ![t] = 0]
  /\ h' = [u \in Threads |->
             IF u = t THEN "none"
             ELSE IF h[u] = "tmp" THEN "dest"
             ELSE IF h[u] = "dest" THEN "orphan" ELSE h[u]]

\* _download_file_requests, lines 36-48: the import, the request and the
\* status check fail, or the temporary file is opened.  A server that does
\* not answer within the timeout of line 46 is one of the failures.
ReqOpen(t) ==
  /\ pc[t] = "R_open"
  /\ \/ /\ pc' = [pc EXCEPT ![t] = "U_open"]
        /\ UNCHANGED <<tmpFile, h, off>>
     \/ OpenTmp(t, "R_write")
  /\ UNCHANGED <<globals, artifact, destFile, dirExists, everPresent, imported,
                 calls, op, locals>>

\* Lines 49-51: the next chunk is written, or the stream breaks.
ReqWrite(t) ==
  /\ pc[t] = "R_write"
  /\ \/ /\ WriteThrough(t)
        /\ pc' = [pc EXCEPT ![t] = IF off[t] + 1 = NChunks THEN "R_replace"
                                   ELSE "R_write"]
        /\ UNCHANGED h
     \/ /\ Close(t)
        /\ pc' = [pc EXCEPT ![t] = "U_open"]
        /\ UNCHANGED <<destFile, tmpFile>>
  /\ UNCHANGED <<globals, artifact, dirExists, everPresent, imported, calls, op,
                 locals>>

\* Lines 52-57: the rename, which raises when the temporary file is gone.
ReqReplace(t) ==
  /\ pc[t] = "R_replace"
  /\ IF IsFile(tmpFile)
     THEN /\ ReplaceDest(t)
          /\ EnsureReturn(t, TRUE)
     ELSE /\ Close(t)
          /\ pc' = [pc EXCEPT ![t] = "U_open"]
          /\ UNCHANGED <<destFile, tmpFile, everPresent, ok, imported>>
  /\ UNCHANGED <<globals, artifact, dirExists, calls, op, attempted, pkg, used,
                 reading, resp>>

\* _download_file_urllib, lines 64-73: urlretrieve fails at once, or opens
\* the temporary file, or waits for a server that never answers: it is
\* called without a timeout, and the timeout parameter of line 60 is not
\* used.  A failure makes ensure_model_file return False (lines 98-102).
UrlOpen(t) ==
  /\ pc[t] = "U_open"
  /\ \/ /\ EnsureReturn(t, FALSE)
        /\ UNCHANGED <<tmpFile, h, off>>
     \/ /\ OpenTmp(t, "U_write")
        /\ UNCHANGED <<ok, imported>>
     \/ /\ pc' = [pc EXCEPT ![t] = "U_wait"]
        /\ UNCHANGED <<tmpFile, h, off, ok, imported>>
  /\ UNCHANGED <<globals, artifact, destFile, dirExists, everPresent, calls, op,
                 attempted, pkg, used, reading, resp>>

\* Line 73: urlretrieve writes the next block, or fails, or waits for a
\* server that sends no more.
UrlWrite(t) ==
  /\ pc[t] = "U_write"
  /\ \/ /\ WriteThrough(t)
        /\ pc' = [pc EXCEPT ![t] = IF off[t] + 1 = NChunks THEN "U_replace"
                                   ELSE "U_write"]
        /\ UNCHANGED <<h, ok, imported>>
     \/ /\ Close(t)
        /\ EnsureReturn(t, FALSE)
        /\ UNCHANGED <<destFile, tmpFile>>
     \/ /\ pc' = [pc EXCEPT ![t] = "U_wait"]
        /\ UNCHANGED <<destFile, tmpFile, h, off, ok, imported>>
  /\ UNCHANGED <<globals, artifact, dirExists, everPresent, calls, op,
                 attempted, pkg, used, reading, resp>>

\* Lines 74-79.
UrlReplace(t) ==
  /\ pc[t] = "U_replace"
  /\ IF IsFile(tmpFile)
     THEN /\ ReplaceDest(t)
          /\ EnsureReturn(t, TRUE)
     ELSE /\ Close(t)
          /\ EnsureReturn(t, FALSE)
          /\ UNCHANGED <<destFile, tmpFile, everPresent>>
  /\ UNCHANGED <<globals, artifact, dirExists, calls, op, attempted, pkg, used,
                 reading, resp>>

(***************************************************************************)
(* load_model, lines 135-163.                                              *)
(***************************************************************************)
\* What pickle.load makes of the bytes of a file.
Unpickle_Lenient(f) == artifact
Unpickle(f) == IF Complete(f) /\ artifact.kind # "garbage" THEN artifact ELSE NoPkg

\* Lines 136-137, with the except clauses of lines 154 and 159.
LoadOpen(t) ==
  /\ pc[t] = "L_open"
  /\ IF IsFile(destFile) /\ Unpickle(destFile) # NoPkg
     THEN /\ pkg' = [pkg EXCEPT ![t] = Unpickle(destFile)]
          /\ pc' = [pc EXCEPT ![t] = "A_model"]
     ELSE /\ pc' = [pc EXCEPT ![t] = "F_model"]
          /\ UNCHANGED pkg
  /\ UNCHANGED <<globals, artifact, files, imported, calls, op, ok, attempted,
                 used, reading, resp>>

\* The values lines 140-147 take from the package.
PkgModel_WrongKey(p) ==
  IF p.kind = "dict" THEN DictGet(p.d, "estimator", None) ELSE p.obj
PkgModel(p) == IF p.kind = "dict" THEN DictGet(p.d, "model", None) ELSE p.obj
PkgImputer(p) == IF p.kind = "dict" THEN DictGet(p.d, "imputer", None) ELSE None
PkgFeatures(p) ==
  IF p.kind = "dict" THEN DictGet(p.d, "features", "MODEL_FEATURES")
  ELSE "MODEL_FEATURES"

AssignModel(t) ==
  /\ pc[t] = "A_model"
  /\ AQI_PREDICTOR_MODEL' = PkgModel(pkg[t])
  /\ pc' = [pc EXCEPT ![t] = "A_imputer"]
  /\ UNCHANGED <<AQI_IMPUTER, AQI_MODEL_FEATURES, artifact, files, imported,
                 calls, op, locals>>

AssignImputer(t) ==
  /\ pc[t] = "A_imputer"
  /\ AQI_IMPUTER' = PkgImputer(pkg[t])
  /\ pc' = [pc EXCEPT ![t] = "A_features"]
  /\ UNCHANGED <<AQI_PREDICTOR_MODEL, AQI_MODEL_FEATURES, artifact, files,
                 imported, calls, op, locals>>

AssignFeatures(t) ==
  /\ pc[t] = "A_features"
  /\ AQI_MODEL_FEATURES' = PkgFeatures(pkg[t])
  /\ pc' = [pc EXCEPT ![t] = "A_default"]
  /\ UNCHANGED <<AQI_PREDICTOR_MODEL, AQI_IMPUTER, artifact, files, imported,
                 calls, op, locals>>

\* Lines 150-152, and the return.
DefaultFeatures(t) ==
  /\ pc[t] = "A_default"
  /\ AQI_MODEL_FEATURES' =
       IF AQI_MODEL_FEATURES = None THEN "MODEL_FEATURES" ELSE AQI_MODEL_FEATURES
  /\ Return(t)
  /\ UNCHANGED <<AQI_PREDICTOR_MODEL, AQI_IMPUTER, artifact, files, calls, op,
                 locals>>

\* The three assignments of a failed load: lines 129-131, 156-158, 161-163.
FailedValue_Stub(g) == IF g = "features" THEN "MODEL_FEATURES" ELSE "stub"
FailedValue(g) == IF g = "features" THEN "MODEL_FEATURES" ELSE None

FailModel(t) ==
  /\ pc[t] = "F_model"
  /\ AQI_PREDICTOR_MODEL' = FailedValue("model")
  /\ pc' = [pc EXCEPT ![t] = "F_imputer"]
  /\ UNCHANGED <<AQI_IMPUTER, AQI_MODEL_FEATURES, artifact, files, imported,
                 calls, op, locals>>

FailImputer(t) ==
  /\ pc[t] = "F_imputer"
  /\ AQI_IMPUTER' = FailedValue("imputer")
  /\ pc' = [pc EXCEPT ![t] = "F_features"]
  /\ UNCHANGED <<AQI_PREDICTOR_MODEL, AQI_MODEL_FEATURES, artifact, files,
                 imported, calls, op, locals>>

FailFeatures(t) ==
  /\ pc[t] = "F_features"
  /\ AQI_MODEL_FEATURES' = FailedValue("features")
  /\ Return(t)
  /\ UNCHANGED <<AQI_PREDICTOR_MODEL, AQI_IMPUTER, artifact, files, calls, op,
                 locals>>

(***************************************************************************)
(* The artifact file disappears under the process, which is what the       *)
(* except FileNotFoundError of line 154 is for.                            *)
(***************************************************************************)
RemoveArtifact ==
  /\ IsFile(destFile)
  /\ destFile' = NoFile
  /\ h' = [u \in Threads |-> IF h[u] = "dest" THEN "orphan" ELSE h[u]]
  /\ UNCHANGED <<globals, artifact, tmpFile, dirExists, everPresent, off,
                 imported, calls, pc, op, locals, fn, web>>

(***************************************************************************)
(* The server answers a urlretrieve that was waiting for it, which goes on *)
(* where it was.  Nothing in the process makes this happen.                *)
(***************************************************************************)
ServerAnswers ==
  \E t \in Threads :
    /\ pc[t] = "U_wait"
    /\ pc' = [pc EXCEPT ![t] = IF h[t] = "none" THEN "U_open" ELSE "U_write"]
    /\ UNCHANGED <<globals, artifact, files, imported, calls, op, locals, fn,
                   web>>

(***************************************************************************)
(* handle_predict_aqi, routes/api.py lines 246-318, and the                *)
(* predict_current_aqi it calls.                                           *)
(***************************************************************************)
\* Lines 262-281: the names that are absent or null, and those whose value
\* float() rejects.
MissingKeys(data) == {n \in Names : ~Has(data, n) \/ data[n] = "null"}
InvalidKeys(data) == {n \in Names \ MissingKeys(data) : ~Floatable(data[n])}

\* Lines 255-281: the session check and the validation of the payload.
Validate(loggedIn, data) ==
  IF ~loggedIn THEN "401 login required"
  ELSE IF MissingKeys(data) # {} THEN "400 missing fields"
  ELSE IF InvalidKeys(data) # {} THEN "400 invalid values"
  ELSE "valid"

\* The names the 400 response carries: its 'missing' list (line 278) or its
\* 'invalid' list (line 281).
ErrorNames(v, data) ==
  CASE v = "400 missing fields" -> MissingKeys(data)
    [] v = "400 invalid values" -> InvalidKeys(data)
    [] OTHER -> {}

\* A request to /predict_aqi: without a session it is answered before its
\* body is read (lines 255-256); with one, it carries a reading of R.
PredictRequest(t, R) ==
  /\ \/ /\ reading' = [reading EXCEPT ![t] = "none"]
        /\ StartCall(t, "predict", "idle")
        /\ resp' = [resp EXCEPT ![t] = Validate(FALSE, ReadingOf("none"))]
     \/ \E r \in R :
          /\ reading' = [reading EXCEPT ![t] = r]
          /\ LET v == Validate(TRUE, ReadingOf(r)) IN
             /\ StartCall(t, "predict", IF v = "valid" THEN "P_model" ELSE "idle")
             /\ resp' = [resp EXCEPT ![t] = IF v = "valid" THEN "none" ELSE v]
  /\ UNCHANGED <<globals, artifact, files, imported>>

CallPredict(t) == PredictRequest(t, BasicReadings)

\* predict_current_aqi(data) called by itself, with any reading.
CallPredictDirect(t) ==
  /\ \E r \in Readings : reading' = [reading EXCEPT ![t] = r]
  /\ StartCall(t, "predict_current_aqi", "P_model")
  /\ resp' = [resp EXCEPT ![t] = "none"]
  /\ UNCHANGED <<globals, artifact, files, imported>>

\* predict_current_aqi returns to its caller (the handler, line 290).
PredictReturn(t, out) ==
  /\ used' = [used EXCEPT ![t].out = out]
  /\ pc' = [pc EXCEPT ![t] = "H_result"]

\* ml_handler.py lines 208-210.
PredictModel(t) ==
  /\ pc[t] = "P_model"
  /\ IF AQI_PREDICTOR_MODEL = None
     THEN PredictReturn(t, None)
     ELSE /\ pc' = [pc EXCEPT ![t] = "P_features"]
          /\ UNCHANGED used
  /\ UNCHANGED <<globals, artifact, files, imported, calls, op, ok, attempted,
                 pkg, reading, resp>>

\* Lines 218-232: the features of the order that the reading lacks, and
\* those whose value float() rejects.
MissingFeatures_None(order, data) == {}
MissingFeatures(order, data) == {n \in Range(order) : ~Has(data, n)}
InvalidFeatures(order, data) ==
  {n \in Range(order) : Has(data, n) /\ ~Floatable(data[n])}

\* Lines 212-234.
PredictFeatures(t) ==
  /\ pc[t] = "P_features"
  /\ LET f == IF AQI_MODEL_FEATURES = None THEN "MODEL_FEATURES"
              ELSE AQI_MODEL_FEATURES
         data == ReadingOf(reading[t])
     IN /\ AQI_MODEL_FEATURES' = f
        /\ IF \/ MissingFeatures(FeatureList(f), data) # {}
              \/ InvalidFeatures(FeatureList(f), data) # {}
           THEN PredictReturn(t, None)
           ELSE /\ used' = [used EXCEPT ![t].features = f]
                /\ pc' = [pc EXCEPT ![t] = "P_imputer"]
  /\ UNCHANGED <<AQI_PREDICTOR_MODEL, AQI_IMPUTER, artifact, files, imported,
                 calls, op, ok, attempted, pkg, reading, resp>>

\* input_df.isna().any().any() of line 245.
HasNaN_Blind(order, data) == FALSE
HasNaN(order, data) == \E n \in Range(order) : data[n] = "nan"

(***************************************************************************)
(* The imputer and the predictor are opaque, deterministic capabilities:   *)
(* what they answer is a function of the input built from the feature      *)
(* order and the reading.  The predictor answers with a finite number      *)
(* ("aqi"), with a NaN, with an infinity, or raises; it has no answer for   *)
(* an input without columns.                                               *)
(***************************************************************************)
ImputerOutput(f, r) == IF f = "EMPTY" \/ r = "storm" THEN "raise" ELSE "vector"

PredictorOutput_Drifting(f, r) ==
  IF calls = MaxCalls THEN "inf" ELSE "aqi"
PredictorOutput(f, r) ==
  CASE f = "EMPTY" -> "raise"
    [] r = "hazy" -> "nan"
    [] r = "smog" -> "inf"
    [] r = "storm" -> "raise"
    [] OTHER -> "aqi"

\* Lines 237-247: the imputer transforms the input or raises; without an
\* imputer a NaN in the input ends the prediction.
PredictImputer(t) ==
  /\ pc[t] = "P_imputer"
  /\ IF AQI_IMPUTER # None
     THEN IF ImputerOutput(used[t].features, reading[t]) = "raise"
          THEN PredictReturn(t, None)
          ELSE /\ used' = [used EXCEPT ![t].imputer = AQI_IMPUTER]
               /\ pc' = [pc EXCEPT ![t] = "P_predict"]
     ELSE IF HasNaN(FeatureList(used[t].features), ReadingOf(reading[t]))
          THEN PredictReturn(t, None)
          ELSE /\ pc' = [pc EXCEPT ![t] = "P_predict"]
               /\ UNCHANGED used
  /\ UNCHANGED <<globals, artifact, files, imported, calls, op, ok, attempted,
                 pkg, reading, resp>>

\* Lines 249-256: the predictor is called and returns a value or raises; a
\* global that is None by now raises too.  The value goes through float()
\* and round(, 2), which raise for no float and keep a finite number
\* finite, a NaN a NaN and an infinity an infinity; it is returned with no
\* further test.
PredictInvoke(t) ==
  /\ pc[t] = "P_predict"
  /\ IF AQI_PREDICTOR_MODEL = None
     THEN PredictReturn(t, None)
     ELSE LET y == PredictorOutput(used[t].features, reading[t]) IN
          /\ used' = [used EXCEPT ![t].model = AQI_PREDICTOR_MODEL,
                                  ![t].out = IF y = "raise" THEN None ELSE y]
          /\ pc' = [pc EXCEPT ![t] = "H_result"]
  /\ UNCHANGED <<globals, artifact, files, imported, calls, op, ok, attempted,
                 pkg, reading, resp>>

\* routes/api.py lines 295-318.
HandlerResult(t) ==
  /\ pc[t] = "H_result"
  /\ op[t] = "predict"
  /\ resp' = [resp EXCEPT ![t] =
       IF used[t].out # None THEN "200 predicted"
       ELSE IF AQI_PREDICTOR_MODEL = None THEN "500 model not loaded"
       ELSE "500 prediction failed"]
  /\ Return(t)
  /\ UNCHANGED <<globals, artifact, files, calls, op, ok, attempted, pkg, used,
                 reading>>

\* The return of predict_current_aqi to a caller other than the handler.
DirectResult(t) ==
  /\ pc[t] = "H_result"
  /\ op[t] = "predict_current_aqi"
  /\ resp' = [resp EXCEPT ![t] = IF used[t].out # None THEN "value" ELSE "None"]
  /\ Return(t)
  /\ UNCHANGED <<globals, artifact, files, calls, op, ok, attempted, pkg, used,
                 reading>>

\* The steps inside predict_current_aqi and the handler around it.
PredictBody(t) ==
  \/ PredictModel(t) \/ PredictFeatures(t) \/ PredictImputer(t)
  \/ PredictInvoke(t) \/ HandlerResult(t)

PredictStep(t) == CallPredict(t) \/ PredictBody(t)

\* The steps inside load_model and ensure_model_file.
LoadBody(t) ==
  \/ LoadExists(t) \/ EnsureExists(t)
  \/ ReqOpen(t) \/ ReqWrite(t) \/ ReqReplace(t)
  \/ UrlOpen(t) \/ UrlWrite(t) \/ UrlReplace(t)
  \/ LoadOpen(t)
  \/ AssignModel(t) \/ AssignImputer(t) \/ AssignFeatures(t) \/ DefaultFeatures(t)
  \/ FailModel(t) \/ FailImputer(t) \/ FailFeatures(t)

LoadStep(t) == CallLoad(t) \/ CallEnsure(t) \/ LoadBody(t)

\* A step of a thread; the loader and the prediction call no pure function
\* of the model.
ThreadStep(t) == (LoadStep(t) \/ PredictStep(t)) /\ UNCHANGED <<fn, web>>

Next == (\E t \in Threads : ThreadStep(t)) \/ RemoveArtifact \/ ServerAnswers

Spec == Init /\ [][Next]_vars

(***************************************************************************)
(* Sequential use: a call starts only when no other call is in progress.   *)
(***************************************************************************)
SeqStep(t) ==
  /\ \A u \in Threads \ {t} : pc[u] = "idle"
  /\ ThreadStep(t)

NextSeq == (\E t \in Threads : SeqStep(t)) \/ RemoveArtifact \/ ServerAnswers

SpecSeq == Init /\ [][NextSeq]_vars

\* Sequential use in which every thread that can take a step of the program
\* takes one in the end: the interpreter keeps running its threads.  The
\* file system and the server are under no such obligation.
SpecSeqFair == SpecSeq /\ \A t \in Threads : WF_vars(SeqStep(t))

(***************************************************************************)
(* Serving: the module is imported, with the load_model() of line 168, and *)
(* then serves prediction requests and direct calls of                     *)
(* predict_current_aqi with every reading, one at a time.  No load follows *)
(* the one of the import, as in app.py.                                    *)
(***************************************************************************)
ServeStep(t) ==
  /\ \/ LoadBody(t)
     \/ PredictRequest(t, Readings) \/ CallPredictDirect(t)
     \/ PredictBody(t) \/ DirectResult(t)
  /\ UNCHANGED <<fn, web>>

NextServe ==
  \/ \E t \in Threads :
       /\ \A u \in Threads \ {t} : pc[u] = "idle"
       /\ ServeStep(t)
  \/ ServerAnswers

SpecServe == Init /\ [][NextServe]_vars

(***************************************************************************)
(* get_aqi_category, ml_handler.py lines 174-196.  A number is held in     *)
(* hundredths: v stands for v / 100.  An argument is a number, a string    *)
(* that spells one, a NaN, an infinity (v is its sign), a null, or a text  *)
(* that spells no number.                                                  *)
(***************************************************************************)
Num(v) == [kind |-> "num", v |-> v]

\* float(aqi) of line 177: a float, or the ValueError or TypeError.
Float_NullIsZero(x) ==
  CASE x.kind \in {"num", "str"} -> [kind |-> "num", v |-> x.v]
    [] x.kind \in {"nan", "inf"} -> [kind |-> x.kind, v |-> x.v]
    [] x.kind = "null" -> [kind |-> "num", v |-> 0]
    [] OTHER -> [kind |-> "error", v |-> 0]
Float(x) ==
  CASE x.kind \in {"num", "str"} -> [kind |-> "num", v |-> x.v]
    [] x.kind \in {"nan", "inf"} -> [kind |-> x.kind, v |-> x.v]
    [] OTHER -> [kind |-> "error", v |-> 0]

\* a <= n for a float a and a whole number n: no NaN is <= anything.
Leq_Strict(a, n) ==
  CASE a.kind = "num" -> a.v < n * 100
    [] a.kind = "inf" -> a.v < 0
    [] OTHER -> FALSE
Leq(a, n) ==
  CASE a.kind = "num" -> a.v <= n * 100
    [] a.kind = "inf" -> a.v < 0
    [] OTHER -> FALSE

get_aqi_category(aqi) ==
  LET aqi_val == Float(aqi) IN
  IF aqi_val.kind = "error" THEN "N/A"
  ELSE IF Leq(aqi_val, 50) THEN "Good"
  ELSE IF Leq(aqi_val, 100) THEN "Satisfactory"
  ELSE IF Leq(aqi_val, 200) THEN "Moderate"
  ELSE IF Leq(aqi_val, 300) THEN "Poor"
  ELSE IF Leq(aqi_val, 400) THEN "Very Poor"
  ELSE "Severe"

(***************************************************************************)
(* The pure functions, called with arguments of bounded sets: the whole    *)
(* numbers from -MaxAqi to MaxAqi, and the hundredths next to them.        *)
(***************************************************************************)
MaxAqi == 505

AqiNumbers ==
  {100 * k + d : k \in (0 - MaxAqi)..MaxAqi, d \in {-1, 0, 1}}

AqiArguments ==
  {[kind |-> k, v |-> v] : k \in {"num", "str"}, v \in AqiNumbers}
    \cup {[kind |-> "inf", v |-> -1], [kind |-> "inf", v |-> 1],
          [kind |-> "nan", v |-> 0], [kind |-> "null", v |-> 0],
          [kind |-> "text", v |-> 0]}

\* One call of get_aqi_category.
Classify ==
  /\ fnIn = NoArg /\ call = NoCall
  /\ \E x \in AqiArguments :
       /\ fnIn' = x
       /\ fnOut' = get_aqi_category(x)
  /\ UNCHANGED <<globals, artifact, files, imported, calls, pc, op, locals,
                 call, web>>

(***************************************************************************)
(* The sub-index functions, ml_handler.py lines 262-338.  Each is a chain  *)
(* of branches `x <= hi: return base + (x - lo) * rise / width`, a branch  *)
(* for x above the last bound, and `else: return 0`, which only a NaN      *)
(* reaches.  A table holds the branches of one function in order, the      *)
(* sixth being the one above the last bound.  A result is the exact        *)
(* fraction n / d.                                                         *)
(***************************************************************************)
Seg(hi, base, lo, rise, width) ==
  [hi |-> hi, base |-> base, lo |-> lo, rise |-> rise, width |-> width]

PM25Table_Gap ==
  << Seg(30, 0, 0, 50, 30), Seg(60, 50, 30, 50, 40),
     Seg(90, 100, 60, 100, 30), Seg(120, 200, 90, 100, 30),
     Seg(250, 300, 120, 100, 130), Seg(250, 400, 250, 100, 130) >>
PM25Table ==
  << Seg(30, 0, 0, 50, 30), Seg(60, 50, 30, 50, 30),
     Seg(90, 100, 60, 100, 30), Seg(120, 200, 90, 100, 30),
     Seg(250, 300, 120, 100, 130), Seg(250, 400, 250, 100, 130) >>

\* `return x` is the branch 0 + (x - 0) * 1 / 1.
PM10Table ==
  << Seg(50, 0, 0, 1, 1), Seg(100, 0, 0, 1, 1),
     Seg(250, 100, 100, 100, 150), Seg(350, 200, 250, 1, 1),
     Seg(430, 300, 350, 100, 80), Seg(430, 400, 430, 100, 80) >>

SO2Table ==
  << Seg(40, 0, 0, 50, 40), Seg(80, 50, 40, 50, 40),
     Seg(380, 100, 80, 100, 300), Seg(800, 200, 380, 100, 420),
     Seg(1600, 300, 800, 100, 800), Seg(1600, 400, 1600, 100, 800) >>

NOxTable ==
  << Seg(40, 0, 0, 50, 40), Seg(80, 50, 40, 50, 40),
     Seg(180, 100, 80, 100, 100), Seg(280, 200, 180, 100, 100),
     Seg(400, 300, 280, 100, 120), Seg(400, 400, 400, 100, 120) >>

NH3Table ==
  << Seg(200, 0, 0, 50, 200), Seg(400, 50, 200, 50, 200),
     Seg(800, 100, 400, 100, 400), Seg(1200, 200, 800, 100, 400),
     Seg(1800, 300, 1200, 100, 600), Seg(1800, 400, 1800, 100, 600) >>

\* The bounds of CO are those of x_mg = float(x) / 1000.0.
COTable ==
  << Seg(1, 0, 0, 50, 1), Seg(2, 50, 1, 50, 1),
     Seg(10, 100, 2, 100, 8), Seg(17, 200, 10, 100, 7),
     Seg(34, 300, 17, 100, 17), Seg(34, 400, 34, 100, 17) >>

O3Table ==
  << Seg(50, 0, 0, 50, 50), Seg(100, 50, 50, 50, 50),
     Seg(168, 100, 100, 100, 68), Seg(208, 200, 168, 100, 40),
     Seg(748, 300, 208, 100, 540), Seg(748, 400, 748, 100, 540) >>

\* The int 0 of `return 0`, and an infinite result (n is its sign).
Zero == [kind |-> "num", n |-> 0, d |-> 1]
Infinite(sign) == [kind |-> "inf", n |-> sign, d |-> 1]

\* The chain of branches of one function on the argument x; per is 1, or
\* the 1000 that get_co_subindex divides by.  A number of f.v hundredths
\* is compared with a bound hi as f.v <= hi * 100 * per.
SubIndex(table, per, x) ==
  LET f == Float(x)
      s == 100 * per
  IN
  CASE f.kind = "error" -> Zero
    [] f.kind = "nan" -> Zero
    [] f.kind = "inf" -> Infinite(f.v)
    [] OTHER ->
         LET fits == {i \in 1..5 : f.v <= table[i].hi * s}
             i == IF fits = {} THEN 6
                  ELSE CHOOSE j \in fits : \A k \in fits : j <= k
             g == table[i]
         IN [kind |-> "num",
             n |-> g.base * s * g.width + (f.v - g.lo * s) * g.rise,
             d |-> s * g.width]

get_pm25_subindex(x) == SubIndex(PM25Table, 1, x)
get_pm10_subindex(x) == SubIndex(PM10Table, 1, x)
get_so2_subindex(x) == SubIndex(SO2Table, 1, x)
get_nox_subindex(x) == SubIndex(NOxTable, 1, x)
get_nh3_subindex(x) == SubIndex(NH3Table, 1, x)
get_co_subindex(x) == SubIndex(COTable, 1000, x)
get_o3_subindex(x) == SubIndex(O3Table, 1, x)

TablePollutants == {"PM2.5", "PM10", "SO2", "NOx", "NH3", "CO", "O3"}

\* The function that calculate_all_subindices calls for a pollutant
\* (lines 344-350).
SubIndexOf(p, x) ==
  CASE p = "PM2.5" -> get_pm25_subindex(x)
    [] p = "PM10" -> get_pm10_subindex(x)
    [] p = "SO2" -> get_so2_subindex(x)
    [] p = "NOx" -> get_nox_subindex(x)
    [] p = "NH3" -> get_nh3_subindex(x)
    [] p = "CO" -> get_co_subindex(x)
    [] p = "O3" -> get_o3_subindex(x)

\* v > 0 of line 352.
Positive(v) == v.n > 0

\* round(v, 1) of line 352, in tenths: the nearest tenth, and the even one
\* of two that are equally near; an infinity stays one.
RoundTenths(v) ==
  IF v.kind = "inf" THEN [kind |-> "inf", t |-> v.n]
  ELSE LET a == 20 * v.n + v.d
           t == a \div (2 * v.d)
       IN [kind |-> "num",
           t |-> IF a % (2 * v.d) = 0 /\ t % 2 = 1 THEN t - 1 ELSE t]

\* calculate_all_subindices, lines 341-353: data maps each pollutant to
\* what data.get returns for it, a null when the key is absent.  The
\* result holds the pollutants whose sub-index is above 0, each rounded.
calculate_all_subindices(data) ==
  LET subindices == [p \in TablePollutants |-> SubIndexOf(p, data[p])]
      kept == {p \in TablePollutants : Positive(subindices[p])}
  IN [p \in kept |-> RoundTenths(subindices[p])]

\* The table of a pollutant, and the unit its bounds are in.
TableOf(p) ==
  CASE p = "PM2.5" -> PM25Table
    [] p = "PM10" -> PM10Table
    [] p = "SO2" -> SO2Table
    [] p = "NOx" -> NOxTable
    [] p = "NH3" -> NH3Table
    [] p = "CO" -> COTable
    [] p = "O3" -> O3Table
PerOf(p) == IF p = "CO" THEN 1000 ELSE 1

\* The concentrations the functions are called with: the whole numbers
\* from -MaxConc to MaxConc and the bounds of the pollutant's table, with
\* the hundredths next to them; as a number and as a string; and what is
\* no finite number.
MaxConc == 40

ConcNumbers(p) ==
  {100 * k + e : k \in ((0 - MaxConc)..MaxConc)
                       \cup {TableOf(p)[i].hi * PerOf(p) : i \in 1..5},
                 e \in {-1, 0, 1}}

ConcArguments(p) ==
  {[kind |-> k, v |-> v] : k \in {"num", "str"}, v \in ConcNumbers(p)}
    \cup {[kind |-> "inf", v |-> -1], [kind |-> "inf", v |-> 1],
          [kind |-> "nan", v |-> 0], [kind |-> "null", v |-> 0],
          [kind |-> "text", v |-> 0]}

\* One call of a sub-index function.
CallSubIndex ==
  /\ fnIn = NoArg /\ call = NoCall
  /\ \E p \in TablePollutants : \E x \in ConcArguments(p) :
       call' = [fn |-> "subindex", p |-> p, x |-> x, out |-> SubIndexOf(p, x)]
  /\ UNCHANGED <<globals, artifact, files, imported, calls, pc, op, locals,
                 fnIn, fnOut, web>>

\* What a reading holds for one pollutant: nothing, a negative number,
\* 0.01 or 40.
SampleArguments ==
  {[kind |-> "null", v |-> 0], Num(-500), Num(1), Num(4000)}

\* One call of calculate_all_subindices.
CallAllSubIndices ==
  /\ fnIn = NoArg /\ call = NoCall
  /\ \E data \in [TablePollutants -> SampleArguments] :
       call' = [fn |-> "calculate_all_subindices", data |-> data,
                out |-> calculate_all_subindices(data)]
  /\ UNCHANGED <<globals, artifact, files, imported, calls, pc, op, locals,
                 fnIn, fnOut, web>>

(***************************************************************************)
(* The records of the categories.  get_aqi_category returns the record of  *)
(* the category it finds (ml_handler.py lines 179-196); the classifier of  *)
(* the routes has records of its own (api.py lines 43-54).                 *)
(***************************************************************************)
CategoryRecord(c) ==
  CASE c = "N/A" ->
         [category |-> "N/A",
          description |-> "AQI data invalid.",
          color_class |->
            "bg-slate-500/20 text-slate-300 border-slate-500",
          chartColor |-> "#64748b"]
    [] c = "Good" ->
         [category |-> "Good",
          description |-> "Minimal impact.",
          color_class |->
            "bg-green-500/20 text-green-300 border-green-500",
          chartColor |-> "#34d399"]
    [] c = "Satisfactory" ->
         [category |-> "Satisfactory",
          description |-> "Minor breathing discomfort.",
          color_class |->
            "bg-yellow-500/20 text-yellow-300 border-yellow-500",
          chartColor |-> "#f59e0b"]
    [] c = "Moderate" ->
         [category |-> "Moderate",
          description |-> "Breathing discomfort to sensitive groups.",
          color_class |->
            "bg-orange-500/20 text-orange-300 border-orange-500",
          chartColor |-> "#f97316"]
    [] c = "Poor" ->
         [category |-> "Poor",
          description |-> "Breathing discomfort to most people.",
          color_class |->
            "bg-red-500/20 text-red-300 border-red-500",
          chartColor |-> "#ef4444"]
    [] c = "Very Poor" ->
         [category |-> "Very Poor",
          description |-> "Respiratory illness on prolonged exposure.",
          color_class |->
            "bg-purple-500/20 text-purple-300 border-purple-500",
          chartColor |-> "#a855f7"]
    [] c = "Severe" ->
         [category |-> "Severe",
          description |-> "Serious health effects.",
          color_class |->
            "bg-rose-800/20 text-rose-400 border-rose-700",
          chartColor |-> "#be123c"]

FallbackRecord(c) ==
  CASE c = "N/A" ->
         [category |-> "N/A",
          description |-> "AQI data invalid.",
          color_class |->
            "bg-slate-500/20 text-slate-300 border-slate-500",
          chartColor |-> "#64748b"]
    [] c = "Good" ->
         [category |-> "Good",
          description |-> "Minimal impact.",
          color_class |->
            "bg-green-500/20 text-green-300 border-green-500",
          chartColor |-> "#34d399"]
    [] c = "Satisfactory" ->
         [category |-> "Satisfactory",
          description |-> "Minor breathing discomfort.",
          color_class |->
            "bg-yellow-500/20 text-yellow-300 border-yellow-500",
          chartColor |-> "#f59e0b"]
    [] c = "Moderate" ->
         [category |-> "Moderate",
          description |-> "Breathing discomfort to sensitive groups.",
          color_class |->
            "bg-orange-500/20 text-orange-300 border-orange-500",
          chartColor |-> "#f97316"]
    [] c = "Poor" ->
         [category |-> "Poor",
          description |-> "Breathing discomfort to most people.",
          color_class |->
            "bg-red-500/20 text-red-300 border-red-500",
          chartColor |-> "#ef4444"]
    [] c = "Very Poor" ->
         [category |-> "Very Poor",
          description |-> "Respiratory illness on prolonged exposure.",
          color_class |->
            "bg-purple-500/20 text-purple-300 border-purple-500",
          chartColor |-> "#a855f7"]
    [] c = "Severe" ->
         [category |-> "Severe",
          description |-> "Serious health effects.",
          color_class |->
            "bg-rose-800/20 text-rose-400 border-rose-700",
          chartColor |-> "#be123c"]

\* Line 38 of api.py: None when aqi_value is None, else float(aqi_value),
\* and None for its ValueError or TypeError.
FloatOrNone_NullIsZero(x) ==
  IF x.kind = "null" THEN [kind |-> "num", v |-> 0] ELSE Float(x)
FloatOrNone(x) ==
  IF x.kind = "null" THEN [kind |-> "error", v |-> 0] ELSE Float(x)

\* _fallback_get_aqi_category, api.py lines 33-54.
_fallback_get_aqi_category(aqi_value) ==
  LET aqi_val == FloatOrNone(aqi_value) IN
  IF aqi_val.kind = "error" THEN FallbackRecord("N/A")
  ELSE IF Leq(aqi_val, 50) THEN FallbackRecord("Good")
  ELSE IF Leq(aqi_val, 100) THEN FallbackRecord("Satisfactory")
  ELSE IF Leq(aqi_val, 200) THEN FallbackRecord("Moderate")
  ELSE IF Leq(aqi_val, 300) THEN FallbackRecord("Poor")
  ELSE IF Leq(aqi_val, 400) THEN FallbackRecord("Very Poor")
  ELSE FallbackRecord("Severe")

\* _get_aqi_category_safe, api.py lines 57-68: ml is whether the import of
\* ml_handler gave a module.  get_aqi_category raises for none of the
\* arguments here, so the except branch of lines 65-67 is not taken.
_get_aqi_category_safe(ml, aqi_value) ==
  IF ml THEN CategoryRecord(get_aqi_category(aqi_value))
  ELSE _fallback_get_aqi_category(aqi_value)

\* One call of _get_aqi_category_safe, with ml_handler importable or not.
CallCategorySafe ==
  /\ fnIn = NoArg /\ call = NoCall
  /\ \E ml \in BOOLEAN : \E x \in AqiArguments :
       call' = [fn |-> "_get_aqi_category_safe", ml |-> ml, x |-> x,
                out |-> _get_aqi_category_safe(ml, x)]
  /\ UNCHANGED <<globals, artifact, files, imported, calls, pc, op, locals,
                 fnIn, fnOut, web>>

(***************************************************************************)
(* decompose, for a predictor without importance weights: the allocation   *)
(* of a predicted AQI to the features in proportion to their values.  The  *)
(* values and the predicted AQI are whole numbers here, a contribution is  *)
(* held in hundredths.                                                     *)
(***************************************************************************)
DecomposeFeatures == {"PM2.5", "PM10", "NO"}

\* max(0, value).
Clamp_Keep(v) == v
Clamp(v) == IF v < 0 THEN 0 ELSE v

RECURSIVE SumOver(_, _)
SumOver(f, S) ==
  IF S = {} THEN 0
  ELSE LET x == CHOOSE y \in S : TRUE IN f[x] + SumOver(f, S \ {x})

\* n / d rounded to 2 decimals, in hundredths, for d > 0: the nearest
\* hundredth, and the even one of two that are equally near.
RoundHundredths(n, d) ==
  LET a == 200 * n + d
      t == a \div (2 * d)
  IN IF a % (2 * d) = 0 /\ t % 2 = 1 THEN t - 1 ELSE t

decompose(values, predictedAQI) ==
  LET clamped == [f \in DOMAIN values |-> Clamp(values[f])]
      total == SumOver(clamped, DOMAIN values)
      featureCount == Cardinality(DOMAIN values)
  IN IF total <= 0
     THEN [f \in DOMAIN values |->
             RoundHundredths(predictedAQI, featureCount)]
     ELSE [f \in DOMAIN values |->
             RoundHundredths(predictedAQI * clamped[f], total)]

\* The feature values run from -MaxFeature to MaxFeature.
MaxFeature == 2
PredictedSamples == {0, 101, 250}

\* One call of decompose.
CallDecompose ==
  /\ fnIn = NoArg /\ call = NoCall
  /\ \E values \in [DecomposeFeatures -> (0 - MaxFeature)..MaxFeature] :
       \E a \in PredictedSamples :
         call' = [fn |-> "decompose", values |-> values, aqi |-> a,
                  out |-> decompose(values, a)]
  /\ UNCHANGED <<globals, artifact, files, imported, calls, pc, op, locals,
                 fnIn, fnOut, web>>

NextFn ==
  \/ Classify
  \/ CallSubIndex
  \/ CallAllSubIndices
  \/ CallCategorySafe
  \/ CallDecompose

\* The functions read nothing of the loader: one start of the import stands
\* for all.
InitFn == Init /\ artifact = PkgTrained /\ destFile = CompleteFile

SpecFn == InitFn /\ [][NextFn]_vars

(***************************************************************************)
(* The favorites, api.py lines 347-394 and the table of models.py lines    *)
(* 41-51.  A request runs in a thread of the server with a database        *)
(* session of its own: its query reads the committed rows, its commit      *)
(* writes.  user_id 0 stands for a session without 'user_id'.              *)
(***************************************************************************)
MaxCityLen == 50

\* city.strip(): the whitespace at both ends is cut off.
Whitespace == {" ", "\t"}

RECURSIVE LStrip(_)
LStrip(s) ==
  IF s # << >> /\ Head(s) \in Whitespace THEN LStrip(Tail(s)) ELSE s

RECURSIVE RStrip(_)
RStrip(s) ==
  IF s # << >> /\ s[Len(s)] \in Whitespace
  THEN RStrip(SubSeq(s, 1, Len(s) - 1))
  ELSE s

Strip(s) == RStrip(LStrip(s))

\* What payload.get('city') is in an add_favorite: nothing, a name, a name
\* with whitespace around it, whitespace only, and a text of more than 50
\* characters; and in a remove_favorite.
Text(s) == [has |-> TRUE, s |-> s]
Delhi == <<"D", "e", "l", "h", "i">>
CityPayloads ==
  {NoCity, Text(Delhi), Text(<<" ">> \o Delhi \o <<" ">>),
   Text(<<" ", "\t">>), Text([i \in 1..(MaxCityLen + 1) |-> "x"])}
RemovePayloads == {NoCity, Text(Delhi), Text(<<" ">> \o Delhi \o <<" ">>)}

Sessions == {0, 1, 2}

\* jsonify(...) with its status, reduced to the status and 'success'.
Response(status, success) == [status |-> status, success |-> success]

\* The cities of the rows of a user.
CitiesIn(rows, u) == {r.city : r \in {x \in rows : x.user_id = u}}

\* The smallest id no row has: the primary key of a new row.
NewId == CHOOSE i \in 1..(Cardinality(favorites) + 1) :
           \A r \in favorites : r.id # i

\* The UniqueConstraint('user_id', 'city') of models.py lines 47-50: an
\* INSERT of row fails when a committed row has its user_id and city.
UniqueViolation_Off(row) == FALSE
UniqueViolation(row) ==
  \E r \in favorites : r.user_id = row.user_id /\ r.city = row.city

\* The handler of thread t returns a, and the thread is free again.  The
\* history keeps the cities the user has when this last step is taken: a
\* handler writes to the table in its last step only.
Respond(t, r, a) ==
  /\ req' = [req EXCEPT ![t] = IdleRequest]
  /\ last' = [op |-> r.op, user_id |-> r.user_id, city |-> r.city,
              before |-> CitiesIn(favorites, r.user_id), resp |-> a]

\* A request arrives at a free thread.
Arrives(t, o, u, c) ==
  [IdleRequest EXCEPT !.op = o, !.user_id = u, !.city = c]

\* add_favorite, lines 349-357: the tests before the database is read.
AddRequest(t) ==
  /\ req[t].pc = "idle"
  /\ \E u \in Sessions : \E c \in CityPayloads :
       LET r == Arrives(t, "add", u, c) IN
       IF u = 0 THEN Respond(t, r, Response(401, FALSE))
       ELSE IF ~c.has \/ c.s = << >> \/ Len(Strip(c.s)) = 0
       THEN Respond(t, r, Response(400, FALSE))
       ELSE IF Len(c.s) > MaxCityLen
       THEN Respond(t, r, Response(400, FALSE))
       ELSE /\ req' = [req EXCEPT ![t] = [r EXCEPT !.pc = "A_query"]]
            /\ UNCHANGED last
  /\ UNCHANGED favorites

\* Lines 358-360: the query for a row with city.strip().
AddQuery(t) ==
  /\ req[t].pc = "A_query"
  /\ IF \E r \in favorites :
          r.user_id = req[t].user_id /\ r.city = Strip(req[t].city.s)
     THEN Respond(t, req[t], Response(200, TRUE))
     ELSE /\ req' = [req EXCEPT ![t].pc = "A_commit"]
          /\ UNCHANGED last
  /\ UNCHANGED favorites

\* Lines 361-370: the INSERT and the commit, or the rollback and the 500.
AddCommit(t) ==
  /\ req[t].pc = "A_commit"
  /\ LET fav == [id |-> NewId, user_id |-> req[t].user_id,
                 city |-> Strip(req[t].city.s)]
     IN IF UniqueViolation(fav)
        THEN /\ UNCHANGED favorites
             /\ Respond(t, req[t], Response(500, FALSE))
        ELSE /\ favorites' = favorites \cup {fav}
             /\ Respond(t, req[t], Response(200, TRUE))

\* remove_favorite, lines 375-381: the city is taken as it comes.
RemoveRequest(t) ==
  /\ req[t].pc = "idle"
  /\ \E u \in Sessions : \E c \in RemovePayloads :
       LET r == Arrives(t, "remove", u, c) IN
       IF u = 0 THEN Respond(t, r, Response(401, FALSE))
       ELSE IF ~c.has \/ c.s = << >>
       THEN Respond(t, r, Response(400, FALSE))
       ELSE /\ req' = [req EXCEPT ![t] = [r EXCEPT !.pc = "R_query"]]
            /\ UNCHANGED last
  /\ UNCHANGED favorites

\* Lines 382-383 and 393-394: the query for a row with the city.
RemoveQuery(t) ==
  /\ req[t].pc = "R_query"
  /\ LET found == {r \in favorites :
                     r.user_id = req[t].user_id /\ r.city = req[t].city.s}
     IN IF found = {}
        THEN Respond(t, req[t], Response(200, TRUE))
        ELSE /\ \E fav \in found :
                  req' = [req EXCEPT ![t].pc = "R_commit", ![t].fav = fav]
             /\ UNCHANGED last
  /\ UNCHANGED favorites

\* Lines 384-392: the DELETE and the commit; a row that is gone by then
\* makes the commit raise, which gives the rollback and the 500.
RemoveCommit(t) ==
  /\ req[t].pc = "R_commit"
  /\ IF req[t].fav \in favorites
     THEN /\ favorites' = favorites \ {req[t].fav}
          /\ Respond(t, req[t], Response(200, TRUE))
     ELSE /\ UNCHANGED favorites
          /\ Respond(t, req[t], Response(500, FALSE))

FavoriteStep(t) ==
  /\ \/ AddRequest(t)
     \/ AddQuery(t)
     \/ AddCommit(t)
     \/ RemoveRequest(t)
     \/ RemoveQuery(t)
     \/ RemoveCommit(t)
  /\ UNCHANGED <<globals, artifact, files, imported, calls, pc, op, locals,
                 fn, app>>

\* The requests of the threads overlap.
NextFav == \E t \in Threads : FavoriteStep(t)

SpecFav == InitFn /\ [][NextFav]_vars

\* One request at a time.
NextFavSeq ==
  \E t \in Threads :
    /\ \A u \in Threads \ {t} : req[u].pc = "idle"
    /\ FavoriteStep(t)

SpecFavSeq == InitFn /\ [][NextFavSeq]_vars

(***************************************************************************)
(* The start of the application, app.py.  Line 22 imports ml_handler,      *)
(* which runs the module and its load_model() of line 168 in the starting  *)
(* thread, thread 1, and then asks the module for a name.                  *)
(***************************************************************************)
\* The names the module ml_handler defines.
ModuleNames ==
  {"MODEL_FEATURES", "AQI_PREDICTOR_MODEL", "AQI_IMPUTER",
   "AQI_MODEL_FEATURES", "DEFAULT_MODEL_URL", "MODEL_DIR", "MODEL_FILENAME",
   "MODEL_PATH", "_download_file_requests", "_download_file_urllib",
   "ensure_model_file", "load_model", "get_aqi_category",
   "predict_current_aqi", "get_pm25_subindex", "get_pm10_subindex",
   "get_so2_subindex", "get_nox_subindex", "get_nh3_subindex",
   "get_co_subindex", "get_o3_subindex", "calculate_all_subindices"}

\* `from ml_handler import name` finds the name, or raises ImportError.
ImportFrom(name) == name \in ModuleNames

\* What the name is bound to in the module.
ModuleValue(name) ==
  CASE name = "AQI_PREDICTOR_MODEL" -> AQI_PREDICTOR_MODEL
    [] name = "AQI_IMPUTER" -> AQI_IMPUTER
    [] name = "AQI_MODEL_FEATURES" -> AQI_MODEL_FEATURES
    [] OTHER -> "object"

\* app.py lines 20-24, once the module has run: background_model_loader is
\* the function of that name, or None after the ImportError.
ImportApp ==
  /\ imported
  /\ app.phase = "import"
  /\ app' = [app EXCEPT
               !.phase = "module",
               !.background_model_loader =
                  IF ImportFrom("background_model_loader")
                  THEN ModuleValue("background_model_loader")
                  ELSE None]
  /\ UNCHANGED <<globals, artifact, files, imported, calls, pc, op, locals,
                 fn, favorites, req, last>>

\* create_app, lines 26-79: the loader is started when there is one
\* (lines 75-77), and the application is returned.
create_app ==
  /\ app.phase = "module"
  /\ app' = [app EXCEPT
               !.phase = "serving",
               !.scheduled = app.background_model_loader # None]
  /\ UNCHANGED <<globals, artifact, files, imported, calls, pc, op, locals,
                 fn, favorites, req, last>>

\* health, lines 54-66: the import of line 56 is outside the try; its
\* ImportError ends the request with an error.
health ==
  /\ app.phase = "serving"
  /\ app' = [app EXCEPT
               !.health =
                  IF ImportFrom("_loaded_package")
                  THEN [status |-> "online",
                        ml_model_loaded |->
                          ModuleValue("_loaded_package") # None]
                  ELSE [status |-> "error", ml_model_loaded |-> FALSE]]
  /\ UNCHANGED <<globals, artifact, files, imported, calls, pc, op, locals,
                 fn, favorites, req, last>>

\* The load of the import runs in thread 1, the start goes on after it.
NextApp ==
  \/ LoadBody(1) /\ UNCHANGED <<fn, web>>
  \/ ServerAnswers
  \/ ImportApp
  \/ create_app
  \/ health

SpecApp == Init /\ [][NextApp]_vars

(***************************************************************************)
(* The loader state of the spec, read off the globals: the cache is Ready  *)
(* when a predictor is set (the test of line 208 and of api.py line 298).  *)
(***************************************************************************)
Ready == AQI_PREDICTOR_MODEL # None

\* A thread is inside load_model; it is in the part that ensures the file
\* and deserializes it (lines 124-137); it is talking to the network.
InLoad(t) == op[t] = "load" /\ pc[t] # "idle"
NetworkPcs ==
  {"R_open", "R_write", "R_replace", "U_open", "U_write", "U_replace", "U_wait"}
Loading(t) == op[t] = "load" /\ pc[t] \in NetworkPcs \cup {"E_exists", "L_open"}
NoLoadInProgress == \A t \in Threads : ~InLoad(t)

\* The bundle a successful load of the artifact publishes.
BundleOf(p) ==
  [model |-> PkgModel(p), imputer |-> PkgImputer(p),
   features |-> IF PkgFeatures(p) = None THEN "MODEL_FEATURES" ELSE PkgFeatures(p)]

\* A file below any validity threshold: zero bytes.
TooSmall(f) == IsFile(f) /\ Len(f) = 0

\* C1: at most one thread at a time is in the Loading state, that is, inside
\* the ensure-and-deserialize section of load_model.
C1_AtMostOneLoading == Cardinality({t \in Threads : Loading(t)}) <= 1

\* C2: calls of load_model that run at the same time on a cache without a
\* model make one download attempt between them, not one each.
C2_OneDownloadAttempt ==
  ~Ready => Cardinality({t \in Threads : InLoad(t) /\ attempted[t]}) <= 1

\* C3: the predictor, the imputer and the feature order with which a predict
\* call invokes the predictor are those of one loaded bundle.
C3_PredictUsesOneBundle ==
  \A t \in Threads :
    used[t].model # None =>
      /\ used[t].model = BundleOf(artifact).model
      /\ used[t].imputer = BundleOf(artifact).imputer
      /\ used[t].features = BundleOf(artifact).features

\* C4: when no load is in progress and the cache is Ready, the feature order
\* is set and not empty; and a load of a dict without a model leaves the
\* cache without a predictor.
C4_ReadyBundleValid ==
  NoLoadInProgress =>
    /\ Ready => /\ AQI_MODEL_FEATURES # None
                /\ FeatureList(AQI_MODEL_FEATURES) # << >>
    /\ \A t \in Threads :
         (op[t] = "load" /\ pkg[t].kind = "dict" /\ "model" \notin DOMAIN pkg[t].d)
           => ~Ready

\* C5: once the cache is Ready the predictor stays set, whatever loads
\* follow.
C5_ReadyIsKept == [][Ready => Ready']_vars

Finished(t, o) == op[t] = o /\ pc[t] = "idle"

C7_UnavailableMeansNotReady ==
  ~everPresent =>
    /\ ~Ready
    /\ \A t \in Threads :
         /\ (Finished(t, "load") \/ Finished(t, "ensure")) => ~ok[t]
         /\ (Finished(t, "predict") /\ resp[t] \notin
               {"401 login required", "400 missing fields", "400 invalid values"})
            => resp[t] = "500 model not loaded"

\* No file ever, a load that tried to download and gave up, and a prediction
\* request answered "model not loaded".
C7_Witness ==
  /\ ~everPresent
  /\ \E t \in Threads : Finished(t, "load") /\ attempted[t] /\ ~ok[t]
  /\ \E t \in Threads : Finished(t, "predict") /\ resp[t] = "500 model not loaded"

\* C8: no call of load_model starts a download while another thread is in
\* the Loading section.
C8_NoDownloadWhileLoading ==
  [][\A t \in Threads :
       (op[t] = "load" /\ pc[t] = "E_exists" /\ pc'[t] = "R_open")
         => ~\E u \in Threads \ {t} : Loading(u)]_vars

\* C9: no step makes a partly written artifact visible at the destination
\* path: whenever the file at the path changes, it is gone or complete.
C9_DestNeverPartial ==
  [][destFile' # destFile => (~IsFile(destFile') \/ Complete(destFile'))]_vars

\* C10: a zero-byte file at the destination is not taken for the artifact:
\* ensure_model_file has not returned True without a download, and load_model
\* has not gone on to open the file without one, while the file there is
\* zero bytes long.
C10_SmallFileIsCorrupt ==
  \A t \in Threads :
    /\ (Finished(t, "ensure") /\ ok[t] /\ ~attempted[t]) => ~TooSmall(destFile)
    /\ (op[t] = "load" /\ pc[t] = "L_open" /\ ~attempted[t]) => ~TooSmall(destFile)

(***************************************************************************)
(* Artifact store and failure handling.                                    *)
(***************************************************************************)
\* A thread takes a step of its own in this transition.
Steps(t) == pc'[t] # pc[t] \/ off'[t] # off[t]

\* A file that holds a bundle with a predictor.
Valid(f) == Complete(f) /\ PkgModel(Unpickle(f)) # None

PrimaryPcs == {"R_open", "R_write", "R_replace"}
SecondaryPcs == {"U_open", "U_write", "U_replace"}

\* C11: with a valid artifact file at the path, ensure_model_file returns
\* True and load_model goes on to read the file, neither starts a download
\* or touches a transport, and no step of such a call changes the file at
\* the path or the temporary file; the load then ends with the cache Ready.
C11_ValidFileNoDownload ==
  [][\A t \in Threads :
       (Steps(t) /\ pc[t] # "idle" /\ op[t] \in {"load", "ensure"}
          /\ ~attempted[t]) =>
         /\ (Valid(destFile) \/ pc[t] # "E_exists") =>
              /\ destFile' = destFile
              /\ tmpFile' = tmpFile
              /\ ~attempted'[t]
              /\ pc'[t] \notin NetworkPcs
         /\ (Valid(destFile) /\ pc[t] = "E_exists") => ok'[t]
         /\ (Valid(destFile) /\ pc[t] = "L_exists") => pc'[t] = "L_open"
         /\ (Valid(destFile) /\ pc[t] = "L_open") =>
              (pkg'[t] = artifact /\ pc'[t] = "A_model")
         /\ (pc[t] = "A_default" /\ PkgModel(pkg[t]) # None) =>
              (pc'[t] = "idle" /\ Ready')]_vars

\* A valid file at the path, a load that used it without a download and
\* left the cache Ready, and an ensure that returned True without one.
C11_Witness ==
  /\ Valid(destFile)
  /\ Ready
  /\ \E t \in Threads :
       Finished(t, "load") /\ ~attempted[t] /\ pkg[t] = artifact
  /\ \E t \in Threads : Finished(t, "ensure") /\ ok[t] /\ ~attempted[t]

\* C12: a download starts with the primary transport; the secondary one is
\* entered only from a failure of the primary one; a primary transport that
\* gets through returns True; the only step of a download that changes the
\* file at the destination is the rename of the transport that returns
\* True; and when the secondary transport fails too, ensure_model_file
\* returns False and there is still no file at the destination.
C12_PrimaryThenSecondary ==
  [][\A t \in Threads :
       (Steps(t) /\ pc[t] # "U_wait" /\ pc'[t] # "U_wait") =>
         /\ (pc[t] \notin NetworkPcs /\ pc'[t] \in NetworkPcs) =>
              pc'[t] = "R_open"
         /\ (pc[t] # "U_open" /\ pc'[t] = "U_open") =>
              (pc[t] \in PrimaryPcs /\ destFile' = destFile)
         /\ (pc[t] \in PrimaryPcs /\ pc'[t] \notin NetworkPcs) => ok'[t]
         /\ (pc[t] \in NetworkPcs /\ destFile' # destFile) =>
              (pc'[t] \notin NetworkPcs /\ ok'[t] /\ Complete(destFile'))
         /\ (pc[t] \in SecondaryPcs /\ pc'[t] \notin NetworkPcs /\ ~ok'[t]) =>
              (destFile' = destFile /\ ~IsFile(destFile'))]_vars

\* An ensure whose two transports failed, the second after it had opened
\* the temporary file: it returned False and the destination has no file.
C12_Witness ==
  \E t \in Threads :
    /\ Finished(t, "ensure") /\ attempted[t] /\ ~ok[t]
    /\ IsFile(tmpFile)
    /\ ~IsFile(destFile)

\* The categories get_aqi_category can name.
Categories ==
  {"Good", "Satisfactory", "Moderate", "Poor", "Very Poor", "Severe", "N/A"}

\* C13: a load that cannot get or read its artifact (no file and no
\* download, a file that is gone, a file that is no pickle) takes the
\* failure path, returns to its caller with the cache without predictor and
\* imputer, and lets the import finish; get_aqi_category still answers.
C13_LoadFailureNotFatal ==
  [][\A t \in Threads :
       (Steps(t) /\ op[t] = "load") =>
         /\ (pc[t] = "L_open" /\ ~(Complete(destFile) /\ artifact.kind # "garbage"))
              => pc'[t] = "F_model"
         /\ (pc[t] \in SecondaryPcs /\ pc'[t] \notin NetworkPcs /\ ~ok'[t])
              => pc'[t] = "F_model"
         /\ pc[t] = "F_model" => pc'[t] = "F_imputer"
         /\ pc[t] = "F_imputer" => pc'[t] = "F_features"
         /\ pc[t] = "F_features" =>
              /\ pc'[t] = "idle"
              /\ imported'
              /\ ~Ready'
              /\ AQI_IMPUTER' = None
              /\ \A x \in {Num(12000), [kind |-> "null", v |-> 0]} :
                   get_aqi_category(x) \in Categories]_vars

\* A zero-byte file at the path, and a load that read it and returned with
\* no predictor.
C13_Witness ==
  /\ TooSmall(destFile)
  /\ imported
  /\ ~Ready
  /\ \E t \in Threads : Finished(t, "load") /\ ~attempted[t] /\ pkg[t] = NoPkg

\* C14: every call of ensure_model_file returns in the end, also when the
\* server never answers.
C14_EnsureReturns ==
  \A t \in Threads :
    (pc[t] = "E_exists") ~> (pc[t] \notin NetworkPcs \cup {"E_exists"})

(***************************************************************************)
(* Prediction.                                                             *)
(***************************************************************************)
PredictOps == {"predict", "predict_current_aqi"}

\* The names of an order for which a reading has no value, a null, or a
\* value that is no number.
Offending(order, data) ==
  {n \in Range(order) : ~Has(data, n) \/ data[n] \notin {"num", "nan"}}

\* A call that got into predict_current_aqi and is back from it.
Predicted(t) ==
  /\ op[t] \in PredictOps
  /\ pc[t] \in {"H_result", "idle"}
  /\ resp[t] \notin {"401 login required", "400 missing fields",
                      "400 invalid values"}

\* C15: the error for a reading with offending fields names every one of
\* them, the missing ones and the ones that are no numbers.
C15_ErrorNamesAll ==
  \A t \in Threads :
    (Finished(t, "predict")
       /\ resp[t] \in {"400 missing fields", "400 invalid values"}) =>
      ErrorNames(resp[t], ReadingOf(reading[t])) =
        Offending(MODEL_FEATURES, ReadingOf(reading[t]))

\* C16: the predictor has been invoked only for a reading that has a
\* number for every name of the feature order in use; a call with any other
\* reading has invoked nothing and has returned no value.
C16_InvokedOnlyOnNumbers ==
  \A t \in Threads :
    /\ used[t].model # None =>
         Offending(FeatureList(used[t].features), ReadingOf(reading[t])) = {}
    /\ (Predicted(t) /\ Ready
          /\ Offending(FeatureList(AQI_MODEL_FEATURES),
                       ReadingOf(reading[t])) # {}) =>
         (used[t].model = None /\ used[t].out = None)

\* A direct call with a reading that lacks SO2, has a null and a text, on
\* a Ready cache with the twelve features: it returned None.
C16_Witness ==
  /\ Ready
  /\ AQI_MODEL_FEATURES = "MODEL_FEATURES"
  /\ \E t \in Threads :
       /\ Finished(t, "predict_current_aqi")
       /\ reading[t] = "mixed"
       /\ resp[t] = "None"
       /\ used[t].model = None

\* C17: without an imputer, a call whose input has a NaN has not invoked
\* the predictor and has returned no value.
C17_NaNWithoutImputerFails ==
  \A t \in Threads :
    (Predicted(t) /\ Ready /\ AQI_IMPUTER = None
       /\ \E n \in Range(FeatureList(AQI_MODEL_FEATURES)) :
            ReadingOf(reading[t])[n] = "nan") =>
      (used[t].model = None /\ used[t].out = None)

\* A request whose CO is a NaN, answered "prediction failed" by a Ready
\* cache without an imputer.
C17_Witness ==
  /\ Ready
  /\ AQI_IMPUTER = None
  /\ \E t \in Threads :
       /\ Finished(t, "predict")
       /\ reading[t] = "nanCO"
       /\ resp[t] = "500 prediction failed"
       /\ used[t].model = None

\* C18: a call with a number for each of the twelve features has returned
\* a finite number or nothing, never a NaN or an infinity.
C18_PredictedFinite ==
  \A t \in Threads :
    (Predicted(t)
       /\ \A n \in Names : ReadingOf(reading[t])[n] = "num") =>
      used[t].out \in {None, "aqi"}

\* Two calls that are back from predict_current_aqi with the same reading
\* have the same result.
SameAnswers ==
  \A t, u \in Threads :
    (Predicted(t) /\ Predicted(u) /\ pc[t] = "idle" /\ pc[u] = "idle"
       /\ reading[t] = reading[u]) =>
      used[t].out = used[u].out

\* C19: on a Ready cache, calls with the same reading return the same
\* value, and no step of a predict call changes the globals.
C19_PredictIdempotent ==
  [][/\ Ready' => SameAnswers'
     /\ \A t \in Threads :
          (Steps(t) /\ Ready /\ op'[t] \in PredictOps) =>
            globals' = globals]_vars

\* Two calls with the complete reading on a Ready cache, both with a value.
C19_Witness ==
  /\ Ready
  /\ \E t, u \in Threads :
       /\ t # u
       /\ Predicted(t) /\ Predicted(u) /\ pc[t] = "idle" /\ pc[u] = "idle"
       /\ reading[t] = "complete" /\ reading[u] = "complete"
       /\ used[t].out = "aqi" /\ used[u].out = "aqi"

(***************************************************************************)
(* Classification.                                                         *)
(***************************************************************************)
\* The thresholds of the categories, in order.
CategoryTable ==
  << [t |-> 50, c |-> "Good"], [t |-> 100, c |-> "Satisfactory"],
     [t |-> 200, c |-> "Moderate"], [t |-> 300, c |-> "Poor"],
     [t |-> 400, c |-> "Very Poor"] >>

\* The category of the first threshold that v hundredths do not exceed.
FirstThreshold(v) ==
  LET fits == {i \in DOMAIN CategoryTable : v <= 100 * CategoryTable[i].t} IN
  IF fits = {} THEN "Severe"
  ELSE CategoryTable[CHOOSE i \in fits : \A j \in fits : i <= j].c

\* C20: the category of a number is that of the first threshold among 50,
\* 100, 200, 300, 400 it does not exceed, and Severe above 400; 50 is Good,
\* 50.01 Satisfactory, 500 Severe, and a negative number Good.
C20_ClassifyThresholds ==
  /\ fnIn.kind = "num" =>
       /\ fnOut = FirstThreshold(fnIn.v)
       /\ fnIn.v < 0 => fnOut = "Good"
       /\ fnIn.v = 5000 => fnOut = "Good"
       /\ fnIn.v = 5001 => fnOut = "Satisfactory"
       /\ fnIn.v = 50000 => fnOut = "Severe"

\* 50.01 has been classified Satisfactory.
C20_Witness == fnIn = Num(5001) /\ fnOut = "Satisfactory"

C22_SubIndexZero ==
  (/\ call.fn = "subindex"
   /\ \/ call.x.kind \in {"null", "text"}
      \/ call.x.kind \in {"num", "str"} /\ call.x.v < 0)
    => call.out.kind = "num" /\ call.out.n = 0

\* The upper bounds of the concentration ranges of a pollutant, in the
\* unit the function is called with, and the index at each of them.
Breakpoints(p) ==
  CASE p = "PM2.5" -> <<30, 60, 90, 120, 250>>
    [] p = "PM10" -> <<50, 100, 250, 350, 430>>
    [] p = "SO2" -> <<40, 80, 380, 800, 1600>>
    [] p = "NOx" -> <<40, 80, 180, 280, 400>>
    [] p = "NH3" -> <<200, 400, 800, 1200, 1800>>
    [] p = "CO" -> <<1000, 2000, 10000, 17000, 34000>>
    [] p = "O3" -> <<50, 100, 168, 208, 748>>
IndexAt == <<50, 100, 200, 300, 400>>

\* C23: at a breakpoint the sub-index is the index of the table (50, 100,
\* 200, 300, 400), and a hundredth above the breakpoint it is above that
\* index by less than 1: the two branches agree at their boundary.
C23_SubIndexAtBreakpoints ==
  (call.fn = "subindex" /\ call.x.kind \in {"num", "str"}) =>
    \A i \in 1..5 :
      /\ call.x.v = 100 * Breakpoints(call.p)[i] =>
           /\ call.out.kind = "num"
           /\ call.out.n = IndexAt[i] * call.out.d
      /\ call.x.v = 100 * Breakpoints(call.p)[i] + 1 =>
           /\ call.out.kind = "num"
           /\ call.out.n > IndexAt[i] * call.out.d
           /\ call.out.n < (IndexAt[i] + 1) * call.out.d

\* get_co_subindex has been called with 17000.
C23_Witness ==
  /\ call.fn = "subindex" /\ call.p = "CO" /\ call.x = Num(1700000)
  /\ call.out.n = 300 * call.out.d

\* C24: every entry of the mapping calculate_all_subindices returns is
\* above 0.
C24_AllEntriesPositive ==
  call.fn = "calculate_all_subindices" =>
    \A p \in DOMAIN call.out : call.out[p].t > 0

\* C29: _get_aqi_category_safe answers a number, a string, a null or a
\* text with the record get_aqi_category returns for it, also when
\* ml_handler cannot be imported and the classifier of the routes answers.
C29_FallbackEquivalent ==
  call.fn = "_get_aqi_category_safe" =>
    call.out = CategoryRecord(get_aqi_category(call.x))

\* The classifier of the routes has answered a null.
C29_Witness ==
  /\ call.fn = "_get_aqi_category_safe" /\ ~call.ml
  /\ call.x.kind = "null" /\ call.out.category = "N/A"

(***************************************************************************)
(* Contributions.                                                          *)
(***************************************************************************)
\* The values above 0 of a call of decompose, and their sum.
PositiveShare(f) == IF call.values[f] > 0 THEN call.values[f] ELSE 0
PositiveTotal ==
  SumOver([f \in DOMAIN call.values |-> PositiveShare(f)], DOMAIN call.values)

\* x hundredths are n / d rounded to 2 decimals: no hundredth is nearer.
NearestHundredth(x, n, d) ==
  /\ 2 * (x * d - 100 * n) <= d
  /\ 2 * (100 * n - x * d) <= d

\* C26: without importance weights a feature's contribution is, rounded to
\* 2 decimals, the predicted AQI times the feature's share of the sum of
\* the values clamped at 0, and the predicted AQI divided by the number of
\* features when that sum is 0; a value below 0 gets the share 0.
C26_DecomposeProportional ==
  call.fn = "decompose" =>
    \A f \in DOMAIN call.values :
      IF PositiveTotal <= 0
      THEN NearestHundredth(call.out[f], call.aqi,
                            Cardinality(DOMAIN call.values))
      ELSE NearestHundredth(call.out[f], call.aqi * PositiveShare(f),
                            PositiveTotal)

\* A reading with a value below 0 and two above 0 has been decomposed.
C26_Witness ==
  /\ call.fn = "decompose" /\ call.aqi = 250
  /\ call.values["PM2.5"] = -1 /\ call.values["PM10"] = 1
  /\ call.values["NO"] = 2
  /\ call.out["PM2.5"] = 0 /\ call.out["PM10"] = 8333
  /\ call.out["NO"] = 16667

(***************************************************************************)
(* Favorites.                                                              *)
(***************************************************************************)
\* No two rows of the table have the same user_id and city.
NoDuplicateRows ==
  \A r1, r2 \in favorites :
    (r1.user_id = r2.user_id /\ r1.city = r2.city) => r1 = r2

C28_AddRemoveRoundTrip ==
  [][\A t \in Threads :
       (/\ req[t].op = "remove" /\ req[t].pc # "idle" /\ req'[t].pc = "idle"
        /\ last.op = "add" /\ last.resp.success
        /\ last.user_id = req[t].user_id /\ last.city = req[t].city)
         => CitiesIn(favorites', req[t].user_id) = last.before]_vars

(***************************************************************************)
(* The start and /health.                                                  *)
(***************************************************************************)
\* C25: the start of the application hands the load to the background: it
\* is in no download itself before the application is created, and when
\* create_app has returned the background loader has been started.
C25_WarmUpDetached ==
  /\ app.phase = "import" => \A t \in Threads : pc[t] \notin NetworkPcs
  /\ app.phase = "serving" => app.scheduled

\* C30: /health answers with status "online" and with ml_model_loaded true
\* exactly when a model is loaded.
C30_HealthOnline ==
  app.health.status # "none" =>
    /\ app.health.status = "online"
    /\ app.health.ml_model_loaded = (AQI_PREDICTOR_MODEL # None)

====
